---- MODULE Spec2Model ----
(***************************************************************************)
(* Model of src/main.py (CookingGenie RAG assistant): the process-wide     *)
(* AWS connectivity state written by initialize_aws_clients, and           *)
(* CookingRAGSystem.query_cooking_agent ("ask"), the retry / session       *)
(* rotation policy around bedrock_agent_runtime.invoke_agent.              *)
(*                                                                         *)
(* Text is a sequence of tokens (words or characters), so that lower(),    *)
(* strip(), substring search and concatenation are computed rather than    *)
(* assumed.  Bytes are sequences of byte values and are decoded as UTF-8.  *)
(* uuid.uuid4() is modelled as a source of fresh identifiers: the n-th     *)
(* call returns Uuid(n), different from every identifier seen before.      *)
(***************************************************************************)
EXTENDS Integers, Sequences, FiniteSets, TLC

\* ------------------------------------------------------------------ bounds
\* longest event stream a remote invocation delivers
MaxChunks == 2
\* number of identifiers uuid4 hands out before the model stops taking calls
MaxUuid == 4

\* ------------------------------------------------------------ python values
None == <<"None">>
EmptyStr == <<>>

\* Python truthiness of an optional string: None and "" are falsy.
Truthy(v) == v # None /\ v # EmptyStr

\* the n-th value returned by str(uuid.uuid4())
Uuid(n) == <<"uuid", n>>

\* a session id that did not come from this process (sent by a caller)
ForeignSid == <<"sid", 0>>

\* ------------------------------------------------------------------- text
\* str.lower() on the vocabulary of the model
LowerTok(t) ==
  CASE t = "Context" -> "context"
    [] t = "Window" -> "window"
    [] t = "MEMORY" -> "memory"
    [] t = "Turns" -> "turns"
    [] OTHER -> t

Lower(s) == [i \in 1..Len(s) |-> LowerTok(s[i])]

\* `pat in s` for python strings
Contains(s, pat) ==
  \E i \in 0..(Len(s) - Len(pat)) :
    \A j \in 1..Len(pat) : s[i + j] = pat[j]

IsSpace(c) == c = " "

RECURSIVE LStrip(_)
LStrip(s) ==
  IF s # <<>> /\ IsSpace(Head(s)) THEN LStrip(Tail(s)) ELSE s

RECURSIVE RStrip(_)
RStrip(s) ==
  IF s # <<>> /\ IsSpace(s[Len(s)]) THEN RStrip(SubSeq(s, 1, Len(s) - 1)) ELSE s

\* str.strip()
Strip(s) == RStrip(LStrip(s))

\* bytes.decode('utf-8'): ASCII bytes map to one character, 0xC3 0xA9 is one
\* two-byte character, anything else (a lone lead byte) raises.
RECURSIVE Decode(_)
Decode(b) ==
  IF b = <<>> THEN [ok |-> TRUE, text |-> <<>>]
  ELSE IF Head(b) < 128
    THEN LET rest == Decode(Tail(b))
             c == CASE Head(b) = 32 -> " "
                    [] Head(b) = 97 -> "a"
                    [] Head(b) = 98 -> "b"
                    [] OTHER -> "?"
         IN IF rest.ok THEN [ok |-> TRUE, text |-> <<c>> \o rest.text] ELSE rest
  ELSE IF Len(b) >= 2 /\ Head(b) = 195 /\ b[2] = 169
    THEN LET rest == Decode(SubSeq(b, 3, Len(b)))
         IN IF rest.ok THEN [ok |-> TRUE, text |-> <<"e'">> \o rest.text] ELSE rest
  ELSE [ok |-> FALSE, text |-> <<>>]

\* ------------------------------------------------------------- exceptions
\* botocore ClientError: response['Error'] = {Code, Message}
ClientError(code, msg) == [type |-> "ClientError", code |-> code, msg |-> msg]
\* any exception that is not a ClientError
OtherError(name, msg) == [type |-> name, code |-> "", msg |-> msg]

\* str(e): botocore formats a ClientError as
\* "An error occurred (<Code>) when calling the <Op> operation: <Message>"
StrOf(e) ==
  IF e.type = "ClientError"
  THEN <<"An error occurred (", e.code, ") when calling the InvokeAgent operation:">> \o e.msg
  ELSE e.msg

\* ------------------------------------------------------------------ state
VARIABLES
  \* module globals, src/main.py:27-28 and 36-40
  AWS_ACCESS_KEY_ID, AWS_SECRET_ACCESS_KEY,
  s3_client, bedrock_agent_runtime, bedrock_agent,
  aws_connection_status, connection_error_message,
  \* where a running initialize_aws_clients() is waiting
  init_pc,
  \* number of uuid4() values handed out so far
  uuid_count,
  \* one query_cooking_agent() call: its position, arguments and locals
  ask_pc, query, arg_session_id, session_id, new_session_id,
  \* what the remote service did during the call: the invoke_agent calls it
  \* received, the exception the first and the retry invocation ended with,
  \* and the byte fragments of the last invocation that ended without one
  invocations, first_error, retry_error, delivered,
  \* what the call returned
  result,
  \* the session ids the call generated itself, over all calls so far
  generated,
  \* cooking_rag.session_id, src/main.py:141
  self_session_id,
  \* one POST /query request: the handler's position, the client's
  \* session['cooking_session_id'], and the JSON body sent back
  handler_pc, cooking_session_id, http_response,
  \* an observer of initialize_aws_clients: the answers the services gave to
  \* the call in progress, and the last two completed calls
  init_log

gate_vars == <<AWS_ACCESS_KEY_ID, AWS_SECRET_ACCESS_KEY, s3_client,
               bedrock_agent_runtime, bedrock_agent, aws_connection_status,
               connection_error_message>>
ask_vars == <<ask_pc, query, arg_session_id, session_id, new_session_id,
              invocations, first_error, retry_error, delivered, result>>
web_vars == <<handler_pc, cooking_session_id, http_response>>
vars == <<gate_vars, init_pc, uuid_count, ask_vars, generated, self_session_id,
          web_vars, init_log>>
\* what initialize_aws_clients leaves alone besides the globals it does not name
init_frame == <<AWS_ACCESS_KEY_ID, AWS_SECRET_ACCESS_KEY, uuid_count, ask_vars,
                generated, self_session_id, web_vars>>

\* --------------------------------------------------- initialize_aws_clients
NoCredentialsMsg == <<"AWS credentials not found in environment variables">>

\* the except ClientError branch of initialize_aws_clients
InitClientErrorMsg(e) ==
  CASE e.code = "InvalidClientTokenId" ->
         <<"Invalid AWS Access Key ID:", "Please verify the access key is correct and active.">>
    [] e.code = "SignatureDoesNotMatch" ->
         <<"Invalid AWS Secret Access Key. Please verify the secret key is correct.">>
    [] e.code = "TokenRefreshRequired" ->
         <<"AWS token refresh required. Please create new access keys.">>
    [] e.code = "AccessDenied" ->
         <<"Access denied for", "User needs additional IAM permissions.">>
    [] OTHER -> <<"AWS Error (", e.code, "):">> \o e.msg

\* the three except clauses of initialize_aws_clients, in order
InitErrorMsg(e) ==
  IF e.type = "ClientError" THEN InitClientErrorMsg(e)
  ELSE IF e.type \in {"NoCredentialsError", "PartialCredentialsError"}
    THEN <<"AWS credentials configuration error:">> \o StrOf(e)
  ELSE <<"Unexpected error initializing AWS clients:">> \o StrOf(e)

\* what sts.get_caller_identity() can do
StsOutcomes ==
  { [ok |-> TRUE] } \cup
  { [ok |-> FALSE, error |-> e] :
      e \in { ClientError("InvalidClientTokenId", <<"invalid token">>),
              ClientError("AccessDenied", <<"not authorized">>),
              ClientError("ExpiredToken", <<"token expired">>),
              OtherError("NoCredentialsError", <<"Unable to locate credentials">>),
              OtherError("EndpointConnectionError", <<"Could not connect">>) } }

\* what s3_client.head_bucket() / bedrock_agent.get_agent() can do
ProbeOutcomes ==
  { [ok |-> TRUE] } \cup
  { [ok |-> FALSE, error |-> e] :
      e \in { ClientError("NoSuchBucket", <<"no bucket">>),
              ClientError("ResourceNotFoundException", <<"no agent">>),
              OtherError("EndpointConnectionError", <<"Could not connect">>) } }

\* boto3 cannot build a client for a service its data files do not know
ClientCreationError == OtherError("UnknownServiceError", <<"Unknown service">>)

\* the state initialize_aws_clients writes
GateState ==
  [status |-> aws_connection_status, message |-> connection_error_message,
   s3 |-> s3_client, runtime |-> bedrock_agent_runtime, agent |-> bedrock_agent]

\* the observer notes an answer of a service to the call in progress
Answered(a) ==
  init_log' = IF init_log.on
              THEN [init_log EXCEPT !.answers = Append(@, a)]
              ELSE init_log

\* the observer notes the last answer and the return of the call: its return
\* value and the state it leaves; it keeps the last two calls
Completed(a, ok) ==
  init_log' =
    IF init_log.on
    THEN LET call == [answers |-> Append(init_log.answers, a), ok |-> ok,
                      after |-> GateState']
             calls == Append(init_log.calls, call)
         IN [on |-> TRUE, answers |-> <<>>,
             calls |-> IF Len(calls) > 2 THEN Tail(calls) ELSE calls]
    ELSE init_log

\* a failure that also takes the connection down
InitFailDisconnects(e) ==
  /\ connection_error_message' = InitErrorMsg(e)
  /\ aws_connection_status' = FALSE
  /\ init_pc' = "idle"

\* a failure that keeps the earlier diagnostic in front of the new one
InitFailKeepsOldMessage(e) ==
  /\ connection_error_message' =
       IF connection_error_message = EmptyStr THEN InitErrorMsg(e)
       ELSE <<"Still failing:">> \o InitErrorMsg(e)
  /\ UNCHANGED aws_connection_status
  /\ init_pc' = "idle"

\* an exception reached one of the outer except clauses (lines 108-137):
\* record its message, return False; the status flag is not touched
InitFail(e) ==
  /\ connection_error_message' = InitErrorMsg(e)
  /\ UNCHANGED aws_connection_status
  /\ init_pc' = "idle"

\* lines 46-70: validate the environment, then call STS
InitializeCall ==
  /\ init_pc = "idle"
  /\ IF ~Truthy(AWS_ACCESS_KEY_ID) \/ ~Truthy(AWS_SECRET_ACCESS_KEY)
     THEN /\ connection_error_message' = NoCredentialsMsg
          /\ init_pc' = "idle"
          /\ UNCHANGED <<s3_client, bedrock_agent_runtime, bedrock_agent,
                         aws_connection_status>>
          /\ Completed("no credentials", FALSE)
     ELSE /\ init_pc' = "sts"
          /\ UNCHANGED <<connection_error_message, s3_client, bedrock_agent_runtime,
                         bedrock_agent, aws_connection_status>>
          /\ Answered("credentials")
  /\ UNCHANGED init_frame

\* the credentials were validated and the flag is raised at once
ClientsCreatedFlagFirst(created) ==
  /\ s3_client' = IF created >= 1 THEN <<"client", "s3">> ELSE s3_client
  /\ bedrock_agent_runtime' =
       IF created >= 2 THEN <<"client", "bedrock-agent-runtime">> ELSE bedrock_agent_runtime
  /\ bedrock_agent' = IF created >= 3 THEN <<"client", "bedrock-agent">> ELSE bedrock_agent
  /\ aws_connection_status' = TRUE
  /\ IF created = 3
     THEN /\ init_pc' = "head_bucket"
          /\ UNCHANGED connection_error_message
     ELSE /\ connection_error_message' = InitErrorMsg(ClientCreationError)
          /\ init_pc' = "idle"

\* lines 75-84: the three clients are created in order, `created` of them
\* before session_aws.client raises; with all three, head_bucket is called
ClientsCreated(created) ==
  /\ s3_client' = IF created >= 1 THEN <<"client", "s3">> ELSE s3_client
  /\ bedrock_agent_runtime' =
       IF created >= 2 THEN <<"client", "bedrock-agent-runtime">> ELSE bedrock_agent_runtime
  /\ bedrock_agent' = IF created >= 3 THEN <<"client", "bedrock-agent">> ELSE bedrock_agent
  /\ IF created = 3
     THEN /\ init_pc' = "head_bucket"
          /\ UNCHANGED <<connection_error_message, aws_connection_status>>
     ELSE InitFail(ClientCreationError)

\* lines 70-84: get_caller_identity returns; create the clients; call head_bucket
StsReturns ==
  /\ init_pc = "sts"
  /\ \E o \in StsOutcomes :
       IF o.ok
       THEN \E created \in 0..3 :
              /\ ClientsCreated(created)
              /\ IF created = 3 THEN Answered(<<o, created>>)
                 ELSE Completed(<<o, created>>, FALSE)
       ELSE /\ InitFail(o.error)
            /\ UNCHANGED <<s3_client, bedrock_agent_runtime, bedrock_agent>>
            /\ Completed(<<o, 0>>, FALSE)
  /\ UNCHANGED init_frame

\* lines 83-95: head_bucket returns (a ClientError is only logged); call get_agent
HeadBucketReturns ==
  /\ init_pc = "head_bucket"
  /\ \E o \in ProbeOutcomes :
       /\ UNCHANGED <<s3_client, bedrock_agent_runtime, bedrock_agent>>
       /\ IF o.ok \/ o.error.type = "ClientError"
          THEN /\ init_pc' = "get_agent"
               /\ UNCHANGED <<connection_error_message, aws_connection_status>>
               /\ Answered(o)
          ELSE /\ InitFail(o.error)
               /\ Completed(o, FALSE)
  /\ UNCHANGED init_frame

\* lines 94-106: get_agent returns (a ClientError is only logged); connected
GetAgentReturns ==
  /\ init_pc = "get_agent"
  /\ \E o \in ProbeOutcomes :
       /\ UNCHANGED <<s3_client, bedrock_agent_runtime, bedrock_agent>>
       /\ IF o.ok \/ o.error.type = "ClientError"
          THEN /\ aws_connection_status' = TRUE
               /\ connection_error_message' = EmptyStr
               /\ init_pc' = "idle"
               /\ Completed(o, TRUE)
          ELSE /\ InitFail(o.error)
               /\ Completed(o, FALSE)
  /\ UNCHANGED init_frame

\* a gate that looks at the clients only
check_aws_connection_ignores_flag ==
  IF s3_client = None \/ bedrock_agent_runtime = None \/ bedrock_agent = None
  THEN [is_connected |-> FALSE, message |-> <<"AWS clients not properly configured">>]
  ELSE [is_connected |-> TRUE, message |-> <<"AWS connection OK">>]

\* ----------------------------------------- CookingRAGSystem.check_aws_connection
check_aws_connection ==
  IF ~aws_connection_status
  THEN [is_connected |-> FALSE,
        message |-> IF connection_error_message # EmptyStr
                    THEN connection_error_message
                    ELSE <<"AWS clients not initialized">>]
  ELSE IF s3_client = None \/ bedrock_agent_runtime = None \/ bedrock_agent = None
  THEN [is_connected |-> FALSE, message |-> <<"AWS clients not properly configured">>]
  ELSE [is_connected |-> TRUE, message |-> <<"AWS connection OK">>]

\* ------------------------------------------------- the remote agent service
BEDROCK_AGENT_ID == "AMA9OYJSAA"
BEDROCK_AGENT_ALIAS_ID == "V0XBFRQZUC"

NoError == [type |-> "none", code |-> "", msg |-> <<>>]

CtxMsgA == <<"Input", "exceeds", "Context", "Window">>
CtxMsgB == <<"too", "many", "MEMORY", "Turns", "in", "session">>
NearMissMsg == <<"Window", "of", "Context">>

\* exceptions invoke_agent raises
InvokeErrors ==
  { ClientError("ValidationException", CtxMsgA),
    ClientError("ValidationException", CtxMsgB),
    ClientError("ResourceNotFoundException", CtxMsgA),
    ClientError("AccessDeniedException", CtxMsgB),
    ClientError("ResourceNotFoundException", <<"agent", "missing">>),
    ClientError("AccessDeniedException", <<"denied">>),
    ClientError("ThrottlingException", NearMissMsg),
    ClientError("InternalServerException", <<>>),
    OtherError("ReadTimeoutError", <<"timed", "out">>),
    OtherError("RuntimeError", CtxMsgA) }

\* exceptions the event stream raises while it is iterated: botocore's
\* EventStreamError, which is a ClientError, or a transport error
StreamErrors ==
  { ClientError("ValidationException", CtxMsgB),
    ClientError("InternalServerException", <<>>),
    OtherError("ReadTimeoutError", <<"timed", "out">>) }

\* payloads of a chunk: " ", "a", "b", a two-byte character, and the first
\* half of one (a character split between two chunks)
Payloads == { <<32>>, <<97>>, <<98>>, <<195, 169>>, <<195>> }

\* events of response['completion']
Events ==
  { [chunk |-> [bytes |-> b]] : b \in Payloads } \cup
  { [chunk |-> [attribution |-> <<>>]], [trace |-> <<>>] }

Streams == UNION { [1..n -> Events] : n \in 0..MaxChunks }

\* what one invoke_agent call can do: raise, or return a stream that ends
\* normally or breaks after its events
Responses ==
  { [raised |-> e, completion |-> <<>>, broken |-> NoError] : e \in InvokeErrors } \cup
  { [raised |-> NoError, completion |-> c, broken |-> b] :
      c \in Streams, b \in {NoError} \cup StreamErrors }

\* the fragments a response delivers: the bytes of its chunk events, in order
RECURSIVE Fragments(_)
Fragments(c) ==
  IF c = <<>> THEN <<>>
  ELSE LET last == c[Len(c)]
           init == Fragments(SubSeq(c, 1, Len(c) - 1))
       IN IF "chunk" \in DOMAIN last /\ "bytes" \in DOMAIN last.chunk
          THEN Append(init, last.chunk.bytes) ELSE init

\* a loop that puts each fragment in front of the text (result = text + result)
RECURSIVE DrainLoopPrepending(_, _, _)
DrainLoopPrepending(events, broken, acc) ==
  IF events = <<>>
  THEN [exc |-> broken, text |-> acc]
  ELSE LET event == Head(events) IN
       IF "chunk" \in DOMAIN event /\ "bytes" \in DOMAIN event.chunk
       THEN LET d == Decode(event.chunk.bytes) IN
            IF d.ok THEN DrainLoopPrepending(Tail(events), broken, d.text \o acc)
            ELSE [exc |-> OtherError("UnicodeDecodeError", <<"invalid", "start", "byte">>),
                  text |-> acc]
       ELSE DrainLoopPrepending(Tail(events), broken, acc)

\* lines 178-183 / 210-215: result = ""; for event in response['completion']: ...
RECURSIVE DrainLoop(_, _, _)
DrainLoop(events, broken, acc) ==
  IF events = <<>>
  THEN [exc |-> broken, text |-> acc]
  ELSE LET event == Head(events) IN
       IF "chunk" \in DOMAIN event /\ "bytes" \in DOMAIN event.chunk
       THEN LET d == Decode(event.chunk.bytes) IN
            IF d.ok THEN DrainLoop(Tail(events), broken, acc \o d.text)
            ELSE [exc |-> OtherError("UnicodeDecodeError", <<"invalid", "start", "byte">>),
                  text |-> acc]
       ELSE DrainLoop(Tail(events), broken, acc)

\* lines 170-183 / 202-215: invoke_agent, then drain the stream
Attempt(resp) ==
  IF resp.raised # NoError THEN [exc |-> resp.raised, text |-> <<>>]
  ELSE DrainLoop(resp.completion, resp.broken, <<>>)

\* what query_cooking_agent sees of one invocation: the exception it ended
\* with (NoError if none), the text accumulated when there was none, and the
\* fragments the service delivered in that case
AttemptOutcomes ==
  { LET a == Attempt(resp) IN
      [exc |-> a.exc,
       text |-> IF a.exc = NoError THEN a.text ELSE <<>>,
       fragments |-> IF a.exc = NoError THEN Fragments(resp.completion) ELSE <<>>] :
    resp \in Responses }

\* --------------------------------------- CookingRAGSystem.query_cooking_agent
Queries == { <<"how", "to", "make", "dosa">>, <<"biriyani", "ingredients">> }

\* the session ids a caller can pass: none, an empty one, one of its own, or
\* one this process generated earlier
SuppliedIds == {None, EmptyStr, ForeignSid} \cup { Uuid(n) : n \in 1..uuid_count }

CannedGuidance ==
  <<"I apologize, but I couldn't find specific information about that recipe",
    "Please try rephrasing your question or ask about a specific recipe or cooking technique!">>

NoResult == [returned |-> FALSE]

\* dict.get(key, default)
Get(d, key, default) == IF key \in DOMAIN d THEN d[key] ELSE default

\* a test that matches either word alone
IsContextWindowLoose(e) ==
  \/ Contains(Lower(StrOf(e)), <<"context">>)
  \/ Contains(Lower(StrOf(e)), <<"window">>)
  \/ Contains(Lower(StrOf(e)), <<"memory", "turns">>)

\* line 194: the test that decides the retry
IsContextWindow(e) ==
  \/ Contains(Lower(StrOf(e)), <<"context", "window">>)
  \/ Contains(Lower(StrOf(e)), <<"memory", "turns">>)

\* the outer test matching either word alone
MessageSaysContextLoose(e) ==
  \/ Contains(Lower(e.msg), <<"context">>)
  \/ Contains(Lower(e.msg), <<"window">>)
  \/ Contains(Lower(e.msg), <<"memory", "turns">>)

\* line 256: the test of the outer handler, on the error message alone
MessageSaysContextWindow(e) ==
  \/ Contains(Lower(e.msg), <<"context", "window">>)
  \/ Contains(Lower(e.msg), <<"memory", "turns">>)

\* outer handlers whose fresh-session result carries no flag
OuterExceptWithoutFlag(e, sid, fresh) ==
  IF e.type = "ClientError"
  THEN IF e.code = "ResourceNotFoundException"
       THEN [response |-> <<"Bedrock agent not found. Please verify agent ID:", BEDROCK_AGENT_ID>>,
             session_id |-> sid, success |-> FALSE]
       ELSE IF e.code = "AccessDeniedException"
       THEN [response |-> <<"Access denied to Bedrock agent. Check IAM permissions.">>,
             session_id |-> sid, success |-> FALSE]
       ELSE IF Contains(Lower(e.msg), <<"context", "window">>)
               \/ Contains(Lower(e.msg), <<"memory", "turns">>)
       THEN [response |-> <<"Conversation too long. Starting fresh session...">>,
             session_id |-> fresh, success |-> TRUE]
       ELSE [response |-> <<"Bedrock error:">> \o e.msg,
             session_id |-> sid, success |-> FALSE]
  ELSE [response |-> <<"I encountered an error while processing your cooking query:">> \o StrOf(e),
        session_id |-> sid, success |-> FALSE]

\* lines 248-281: the except clauses of the outer try; `fresh` is the value
\* uuid4() returns if it is called
OuterExcept(e, sid, fresh) ==
  IF e.type = "ClientError"
  THEN IF e.code = "ResourceNotFoundException"
       THEN [response |-> <<"Bedrock agent not found. Please verify agent ID:", BEDROCK_AGENT_ID>>,
             session_id |-> sid, success |-> FALSE]
       ELSE IF e.code = "AccessDeniedException"
       THEN [response |-> <<"Access denied to Bedrock agent. Check IAM permissions.">>,
             session_id |-> sid, success |-> FALSE]
       ELSE IF MessageSaysContextWindow(e)
       THEN [response |-> <<"Conversation too long. Starting fresh session...">>,
             session_id |-> fresh, success |-> TRUE, new_session |-> TRUE]
       ELSE [response |-> <<"Bedrock error:">> \o e.msg,
             session_id |-> sid, success |-> FALSE]
  ELSE [response |-> <<"I encountered an error while processing your cooking query:">> \o StrOf(e),
        session_id |-> sid, success |-> FALSE]

\* whether OuterExcept(e, ...) called uuid4()
OuterExceptCallsUuid(e) ==
  /\ e.type = "ClientError"
  /\ e.code \notin {"ResourceNotFoundException", "AccessDeniedException"}
  /\ MessageSaysContextWindow(e)

\* lines 185-191: the first attempt produced text
FirstSuccess(text, sid) ==
  [response |-> Strip(text), session_id |-> sid, success |-> TRUE]

\* a retry that forgets to flag the rotation
RetrySuccessWithoutFlag(text, new_sid) ==
  [response |-> Strip(text), session_id |-> new_sid, success |-> TRUE]

\* lines 217-224: the retry produced text
RetrySuccess(text, new_sid) ==
  [response |-> Strip(text), session_id |-> new_sid, success |-> TRUE, new_session |-> TRUE]

\* an empty answer reported as a failure
NoInformationAsFailure(sid) ==
  [response |-> CannedGuidance, session_id |-> sid, success |-> FALSE]

\* lines 231-246: no text from either attempt
NoInformation(sid) ==
  [response |-> CannedGuidance, session_id |-> sid, success |-> TRUE]

\* lines 157-161: the gate is closed
NotConnected(message, sid) ==
  [response |-> <<"Cannot process your cooking query:">> \o message,
   session_id |-> sid, success |-> FALSE]

\* a default applied to None only (`if session_id is None`)
DefaultSessionIdForNoneOnly(s, fresh) == IF s = None THEN fresh ELSE s

\* a default id made once and shared by the calls that pass none
DefaultSessionIdShared(s, fresh) == IF ~Truthy(s) THEN Uuid(1) ELSE s

\* lines 163-164: if not session_id: session_id = str(uuid.uuid4())
DefaultSessionId(s, fresh) == IF ~Truthy(s) THEN fresh ELSE s

\* a retry that lets its own exception through
RetryFailureRaisesRetryError(original, retried) == retried

\* lines 225-227: the retry failed; `raise context_error` raises the original
RetryFailure(original, retried) == original

\* an outer handler that names the exceptions it expects
CaughtByNarrowExcept(e) == e.type \in {"ReadTimeoutError", "RuntimeError"}

\* line 275: `except Exception` catches every exception the service raises
CaughtByExceptException(e) == e.type # "none"

\* lines 248-281: an exception reaches the handlers of the outer try
Propagate(e) ==
  IF e.type = "ClientError" \/ CaughtByExceptException(e)
  THEN /\ result' = OuterExcept(e, session_id, Uuid(uuid_count + 1))
       /\ uuid_count' = IF OuterExceptCallsUuid(e) THEN uuid_count + 1 ELSE uuid_count
       /\ generated' = IF OuterExceptCallsUuid(e)
                       THEN Append(generated, Uuid(uuid_count + 1)) ELSE generated
       /\ ask_pc' = "returned"
  ELSE /\ result' = NoResult
       /\ ask_pc' = "raised"
       /\ UNCHANGED <<uuid_count, generated>>

InvokeAgent(sid, text) ==
  [agentId |-> BEDROCK_AGENT_ID, agentAliasId |-> BEDROCK_AGENT_ALIAS_ID,
   sessionId |-> sid, inputText |-> text]

\* a call that leaves its last failure in the module's diagnostic
AskRecordsFailureGlobally ==
  /\ connection_error_message' =
       IF ask_pc' = "returned" /\ ~result'.success
       THEN <<"last query failed">> ELSE connection_error_message
  /\ UNCHANGED <<AWS_ACCESS_KEY_ID, AWS_SECRET_ACCESS_KEY, s3_client,
                 bedrock_agent_runtime, bedrock_agent, aws_connection_status,
                 self_session_id>>

\* lines 151-281: query_cooking_agent has no `global` statement and assigns no
\* attribute of self: the module globals and cooking_rag.session_id stay
AskWritesNoGlobals == UNCHANGED <<gate_vars, self_session_id>>

\* lines 153-175: check the gate, default the session id, send the first
\* request; n values of uuid4 were drawn before the call
AskStart(q, s, n) ==
  LET conn == check_aws_connection
      sid == DefaultSessionId(s, Uuid(n + 1))
  IN /\ ask_pc = "idle"
     /\ query' = q
     /\ arg_session_id' = s
     /\ IF ~conn.is_connected
        THEN /\ result' = NotConnected(conn.message, s)
             /\ ask_pc' = "returned"
             /\ uuid_count' = n
             /\ UNCHANGED <<session_id, invocations, generated>>
        ELSE /\ session_id' = sid
             /\ uuid_count' = IF sid = s THEN n ELSE n + 1
             /\ generated' = IF sid = s THEN generated ELSE Append(generated, sid)
             /\ invocations' = <<InvokeAgent(sid, q)>>
             /\ ask_pc' = "first_attempt"
             /\ UNCHANGED result
     /\ AskWritesNoGlobals
     /\ UNCHANGED <<init_pc, init_log, new_session_id, first_error, retry_error, delivered>>

\* query_cooking_agent called by any caller, with any query and session id
AskCall ==
  /\ handler_pc = "idle"
  /\ uuid_count + 3 <= MaxUuid
  /\ \E q \in Queries, s \in SuppliedIds : AskStart(q, s, uuid_count)
  /\ UNCHANGED web_vars

\* lines 176-199 and 228-281: the first invocation returns or raises
FirstReturns ==
  /\ ask_pc = "first_attempt"
  /\ \E a \in AttemptOutcomes :
       /\ first_error' = a.exc
       /\ delivered' = a.fragments
       /\ IF a.exc = NoError
          THEN /\ result' = IF Strip(a.text) # EmptyStr
                            THEN FirstSuccess(a.text, session_id)
                            ELSE NoInformation(session_id)
               /\ ask_pc' = "returned"
               /\ UNCHANGED <<new_session_id, invocations, uuid_count, generated>>
          ELSE IF a.exc.type = "ClientError" /\ IsContextWindow(a.exc)
          THEN /\ new_session_id' = Uuid(uuid_count + 1)
               /\ uuid_count' = uuid_count + 1
               /\ generated' = Append(generated, Uuid(uuid_count + 1))
               /\ invocations' = Append(invocations, InvokeAgent(Uuid(uuid_count + 1), query))
               /\ ask_pc' = "retry"
               /\ UNCHANGED result
          ELSE /\ Propagate(a.exc)
               /\ UNCHANGED <<new_session_id, invocations>>
  /\ AskWritesNoGlobals
  /\ UNCHANGED <<init_pc, init_log, web_vars, query, arg_session_id, session_id,
                 retry_error>>

\* lines 208-227 and 231-281: the retry invocation returns or raises
RetryReturns ==
  /\ ask_pc = "retry"
  /\ \E a \in AttemptOutcomes :
       /\ retry_error' = a.exc
       /\ delivered' = a.fragments
       /\ IF a.exc = NoError
          THEN /\ result' = IF Strip(a.text) # EmptyStr
                            THEN RetrySuccess(a.text, new_session_id)
                            ELSE NoInformation(session_id)
               /\ ask_pc' = "returned"
               /\ UNCHANGED <<uuid_count, generated>>
          ELSE Propagate(RetryFailure(first_error, a.exc))
  /\ AskWritesNoGlobals
  /\ UNCHANGED <<init_pc, init_log, web_vars, query, arg_session_id, session_id,
                 new_session_id, invocations, first_error>>

\* the call's frame is gone: its arguments, locals and return value
AskFrameDropped ==
  /\ ask_pc' = "idle"
  /\ query' = EmptyStr
  /\ arg_session_id' = None
  /\ session_id' = None
  /\ new_session_id' = None
  /\ invocations' = <<>>
  /\ first_error' = NoError
  /\ retry_error' = NoError
  /\ delivered' = <<>>
  /\ result' = NoResult

\* the caller takes the result (or the exception); the call's locals are gone
AskReturn ==
  /\ handler_pc = "idle"
  /\ ask_pc \in {"returned", "raised"}
  /\ AskFrameDropped
  /\ AskWritesNoGlobals
  /\ UNCHANGED <<init_pc, init_log, web_vars, uuid_count, generated>>

\* ------------------------------------------------------------ POST /query
NoResponse == [sent |-> FALSE]

\* flask.jsonify: a response whose body is the JSON object of the dict, with
\* the dict's keys and values
jsonify(d) == [sent |-> TRUE, json |-> d]

\* what request.get_json() can return: null, or an object with or without a
\* 'query', whose text may be empty, blank, or padded with white space
BodyKinds == {"null", "no query", "empty", "blank", "padded", "plain"}
Data(kind, q) ==
  CASE kind = "no query" -> [user |-> <<"guest">>]
    [] kind = "empty" -> [query |-> EmptyStr]
    [] kind = "blank" -> [query |-> <<" ", " ">>]
    [] kind = "padded" -> [query |-> <<" ">> \o q \o <<" ">>]
    [] OTHER -> [query |-> q]

\* line 331 on a body that is null: None has no attribute 'get'
NoneHasNoGet ==
  OtherError("AttributeError", <<"'NoneType' object has no attribute 'get'">>)

\* lines 325-328
GateClosed ==
  [success |-> FALSE,
   message |-> <<"Cannot process cooking query:">> \o connection_error_message]

\* line 334
PleaseAsk == [success |-> FALSE, message |-> <<"Please ask me a cooking question!">>]

\* line 361
QueryFailed(e) == [success |-> FALSE, message |-> <<"Cooking query failed:">> \o StrOf(e)]

\* the exception that left query_cooking_agent
RaisedByCore ==
  IF Len(invocations) = 2 THEN RetryFailure(first_error, retry_error) ELSE first_error

\* a handler that keeps the id it created
UpdateSessionNever(r, stored) == stored

\* lines 348-350: the stored id follows a result that carries new_session
UpdateSession(r, stored) ==
  IF Get(r, "new_session", FALSE) THEN r.session_id ELSE stored

\* a return of the handler before the core is called
RespondEarly(body) ==
  /\ http_response' = jsonify(body)
  /\ handler_pc' = "responded"
  /\ UNCHANGED <<gate_vars, init_pc, init_log, uuid_count, ask_vars, generated,
                 self_session_id, cooking_session_id>>

\* lines 322-345 and 153-175: a POST /query arrives; the handler checks the
\* flag and the query, gets or creates the stored id and calls the core, which
\* sends its first request
QueryPost ==
  /\ handler_pc = "idle"
  /\ ask_pc = "idle"
  /\ \E kind \in BodyKinds, q \in Queries :
       IF ~aws_connection_status
       THEN RespondEarly(GateClosed)
       ELSE IF kind = "null"
       THEN RespondEarly(QueryFailed(NoneHasNoGet))
       ELSE LET query_text == Strip(Get(Data(kind, q), "query", EmptyStr))
                created == ~Truthy(cooking_session_id)
                n == IF created THEN uuid_count + 1 ELSE uuid_count
                sid == IF created THEN Uuid(uuid_count + 1) ELSE cooking_session_id
            IN IF query_text = EmptyStr
               THEN RespondEarly(PleaseAsk)
               ELSE /\ n + 2 <= MaxUuid
                    /\ cooking_session_id' = sid
                    /\ AskStart(query_text, sid, n)
                    /\ handler_pc' = "in_core"
                    /\ UNCHANGED http_response

\* lines 345-361: the core returned (or raised); the handler updates the
\* stored id and answers with the result (or with the exception's text)
HandlerReturns ==
  /\ handler_pc = "in_core"
  /\ ask_pc \in {"returned", "raised"}
  /\ IF ask_pc = "returned"
     THEN /\ cooking_session_id' = UpdateSession(result, cooking_session_id)
          /\ http_response' = jsonify(result)
     ELSE /\ http_response' = jsonify(QueryFailed(RaisedByCore))
          /\ UNCHANGED cooking_session_id
  /\ handler_pc' = "responded"
  /\ UNCHANGED <<gate_vars, init_pc, init_log, uuid_count, ask_vars, generated,
                 self_session_id>>

\* the response has left; the frames of the handler and of the core are gone
ResponseSent ==
  /\ handler_pc = "responded"
  /\ handler_pc' = "idle"
  /\ http_response' = NoResponse
  /\ AskFrameDropped
  /\ UNCHANGED <<gate_vars, init_pc, init_log, uuid_count, generated,
                 self_session_id, cooking_session_id>>

\* ------------------------------------------------------------ specification
Credentials == { None, <<"AKIAEXAMPLE">> }

\* the state when the module has been loaded, before line 308 runs
Loaded ==
  /\ AWS_ACCESS_KEY_ID \in Credentials
  /\ AWS_SECRET_ACCESS_KEY \in Credentials
  /\ s3_client = None
  /\ bedrock_agent_runtime = None
  /\ bedrock_agent = None
  /\ aws_connection_status = FALSE
  /\ connection_error_message = EmptyStr
  /\ init_pc = "idle"
  /\ uuid_count = 0
  /\ ask_pc = "idle"
  /\ query = EmptyStr
  /\ arg_session_id = None
  /\ session_id = None
  /\ new_session_id = None
  /\ invocations = <<>>
  /\ first_error = NoError
  /\ retry_error = NoError
  /\ delivered = <<>>
  /\ result = NoResult
  /\ generated = <<>>
  /\ self_session_id = None
  /\ handler_pc = "idle"
  /\ cooking_session_id = None
  /\ http_response = NoResponse

Init == Loaded /\ init_log = [on |-> FALSE, answers |-> <<>>, calls |-> <<>>]

Next ==
  \/ InitializeCall
  \/ StsReturns
  \/ HeadBucketReturns
  \/ GetAgentReturns
  \/ AskCall
  \/ FirstReturns
  \/ RetryReturns
  \/ AskReturn

Spec == Init /\ [][Next]_vars

\* initialize_aws_clients called again and again (startup, /reinitialize-aws),
\* its last two calls on record
InitObserved == Loaded /\ init_log = [on |-> TRUE, answers |-> <<>>, calls |-> <<>>]

NextInit ==
  \/ InitializeCall
  \/ StsReturns
  \/ HeadBucketReturns
  \/ GetAgentReturns

SpecInit == InitObserved /\ [][NextInit]_vars

\* one client's requests to POST /query, with initialize_aws_clients running
\* at any time
NextWeb ==
  \/ InitializeCall
  \/ StsReturns
  \/ HeadBucketReturns
  \/ GetAgentReturns
  \/ QueryPost
  \/ FirstReturns
  \/ RetryReturns
  \/ HandlerReturns
  \/ ResponseSent

SpecWeb == Init /\ [][NextWeb]_vars

\* ================================================================== claims
\* vocabulary of the claims, stated on what the caller and the service observe
Returned == ask_pc = "returned"
Retried == Len(invocations) = 2
FirstSid == invocations[1].sessionId
RetrySid == invocations[2].sessionId
Rotated(r) == Get(r, "new_session", FALSE)

\* an error the spec classifies as context-window exceeded: a remote (client)
\* error whose text mentions "context window" or "memory turns" in any case
ContextWindowExceeded(e) ==
  /\ e.type = "ClientError"
  /\ e.msg \in {CtxMsgA, CtxMsgB}

\* the text of a sequence of fragments: their decoded contents, first to last
RECURSIVE TextOf(_)
TextOf(fs) ==
  IF fs = <<>> THEN <<>> ELSE Decode(Head(fs)).text \o TextOf(Tail(fs))

\* the last invocation of the call ended without an exception
LastCompleted ==
  \/ Len(invocations) = 1 /\ first_error = NoError
  \/ Len(invocations) = 2 /\ retry_error = NoError

\* the failure report of a remote error e
FailureReport(e) ==
  CASE e.code = "ResourceNotFoundException" ->
         <<"Bedrock agent not found. Please verify agent ID:", BEDROCK_AGENT_ID>>
    [] e.code = "AccessDeniedException" ->
         <<"Access denied to Bedrock agent. Check IAM permissions.">>
    [] OTHER -> <<"Bedrock error:">> \o e.msg

\* the first invocation failed with a context-window error and the retry failed
C1_Case ==
  /\ Returned /\ Retried
  /\ ContextWindowExceeded(first_error)
  /\ retry_error # NoError

\* C1 as stated: when the first invocation fails with a context-window error
\* and the retry fails too, ask returns success=false with the report of the
\* ORIGINAL error.
C1_OriginalErrorReportedAsFailure ==
  C1_Case => /\ result.success = FALSE
             /\ result.response = FailureReport(first_error)

\* C1 amended: in that case the result is decided by the ORIGINAL error alone,
\* never by the retry's and never an agent answer: an original error with code
\* ResourceNotFoundException or AccessDeniedException gives success=false, its
\* category's report and the session id of the first invocation; any other
\* gives success=true with the fixed text "Conversation too long. Starting
\* fresh session...", the rotated flag and a session id used by neither
\* invocation.
C1_RetryFailureDecidedByOriginalError ==
  C1_Case =>
    IF first_error.code \in {"ResourceNotFoundException", "AccessDeniedException"}
    THEN /\ result.success = FALSE
         /\ result.response = FailureReport(first_error)
         /\ result.session_id = FirstSid
         /\ ~Rotated(result)
    ELSE /\ result.success = TRUE
         /\ result.response = <<"Conversation too long. Starting fresh session...">>
         /\ Rotated(result)
         /\ result.session_id \notin {FirstSid, RetrySid, arg_session_id}
         /\ Truthy(result.session_id)

C1_Witness ==
  /\ C1_Case
  /\ retry_error = OtherError("ReadTimeoutError", <<"timed", "out">>)
  /\ first_error.code = "ValidationException"
  /\ result.success = TRUE

\* C2: when the first invocation fails with a context-window error and the
\* retry delivers usable text, ask returns success=true, that text (trimmed),
\* the rotated flag, and the session id of the retry invocation, which differs
\* from the session id passed in and from the one of the first invocation.
C2_RetrySuccessRotates ==
  (/\ Returned /\ Retried
   /\ ContextWindowExceeded(first_error)
   /\ retry_error = NoError
   /\ Strip(TextOf(delivered)) # EmptyStr)
  => /\ result.success = TRUE
     /\ result.response = Strip(TextOf(delivered))
     /\ Rotated(result) = TRUE
     /\ result.session_id = RetrySid
     /\ result.session_id # arg_session_id
     /\ result.session_id # FirstSid

C2_Witness ==
  /\ Returned /\ Retried
  /\ arg_session_id = ForeignSid
  /\ retry_error = NoError
  /\ TextOf(delivered) = <<"a", "b">>
  /\ Rotated(result)

\* the gate as the claim describes it
C3_GateDisconnected ==
  \/ ~aws_connection_status
  \/ s3_client = None \/ bedrock_agent_runtime = None \/ bedrock_agent = None

\* C3: a call of ask made while the gate is disconnected returns at once with
\* success=false and a diagnostic message, and invokes the remote agent zero
\* times, for every query and session id.
C3_DisconnectedGateNoInvocation ==
  [][(ask_pc = "idle" /\ ask_pc' # "idle" /\ C3_GateDisconnected)
       => /\ ask_pc' = "returned"
          /\ invocations' = <<>>
          /\ result'.success = FALSE
          /\ Len(result'.response) >= 2
          /\ result'.session_id = arg_session_id']_vars

C3_Witness ==
  /\ Returned
  /\ invocations = <<>>
  /\ ~aws_connection_status
  /\ s3_client # None /\ bedrock_agent_runtime # None /\ bedrock_agent # None
  /\ arg_session_id = ForeignSid
  /\ result.success = FALSE

\* C4: one call makes at most two invocations; the second is made only after
\* the first failed with a context-window error, with the same query text and
\* a newly generated session id different from the first invocation's; a call
\* whose first invocation ended any other way has made exactly one.
C4_AtMostOneRetry ==
  /\ Len(invocations) <= 2
  /\ Retried =>
       /\ ContextWindowExceeded(first_error)
       /\ invocations[1].inputText = query
       /\ invocations[2].inputText = query
       /\ RetrySid # FirstSid
       /\ RetrySid # arg_session_id
       /\ \E n \in 1..uuid_count : RetrySid = Uuid(n)
  /\ (Returned /\ invocations # <<>> /\ ~ContextWindowExceeded(first_error))
       => Len(invocations) = 1

C4_Witness ==
  /\ ask_pc = "retry"
  /\ Retried
  /\ arg_session_id = Uuid(1)
  /\ first_error.msg = CtxMsgB

\* C5: when the first invocation fails with an error that is not a
\* context-window error, ask returns success=false with a message, the session
\* id used for the invocation, no rotated flag, and makes no retry.
C5_OtherErrorsFailWithoutRetry ==
  (/\ Returned /\ invocations # <<>>
   /\ first_error # NoError
   /\ ~ContextWindowExceeded(first_error))
  => /\ result.success = FALSE
     /\ result.response # EmptyStr
     /\ result.session_id = FirstSid
     /\ "new_session" \notin DOMAIN result
     /\ Len(invocations) = 1

C5_Witness ==
  /\ Returned
  /\ first_error = ClientError("ThrottlingException", NearMissMsg)
  /\ result.success = FALSE
  /\ result.session_id = FirstSid

\* the last invocation ended without an exception and without usable text
C6_Case ==
  /\ Returned /\ invocations # <<>>
  /\ LastCompleted
  /\ Strip(TextOf(delivered)) = EmptyStr

\* C6: when the last invocation of a call (the first attempt, or the retry)
\* completes without error but without usable text, ask returns success=true
\* with the canned guidance, the session id the call started with (the one
\* passed in if there was one, the one of the first invocation in any case) and
\* no rotation.
C6_EmptyAnswerGivesGuidance ==
  C6_Case => /\ result.success = TRUE
             /\ result.response = CannedGuidance
             /\ result.session_id = FirstSid
             /\ Truthy(arg_session_id) => result.session_id = arg_session_id
             /\ Rotated(result) = FALSE

C6_Witness ==
  /\ C6_Case
  /\ Retried
  /\ delivered = << <<32>>, <<32>> >>
  /\ arg_session_id = ForeignSid
  /\ result.session_id = ForeignSid

\* C7: every result with success=true carries a defined, non-empty session id,
\* whether or not the caller passed one.
C7_SuccessHasSessionId ==
  (Returned /\ result.success = TRUE)
  => /\ "session_id" \in DOMAIN result
     /\ result.session_id # None
     /\ result.session_id # EmptyStr

C7_Witness ==
  /\ Returned
  /\ arg_session_id = EmptyStr
  /\ result.success = TRUE
  /\ result.session_id = Uuid(1)

\* C8: for a call with a non-empty session id S, a result whose session id
\* differs from S carries the rotated flag, and a result without the flag
\* carries S.
C8_RotationIsFlagged ==
  (Returned /\ Truthy(arg_session_id))
  => /\ result.session_id # arg_session_id => Rotated(result) = TRUE
     /\ ~Rotated(result) => result.session_id = arg_session_id

C8_Witness ==
  /\ Returned
  /\ arg_session_id = ForeignSid
  /\ result.session_id # arg_session_id
  /\ retry_error # NoError
  /\ Rotated(result)

\* C9: whatever the first and the retry invocation do, no exception leaves ask:
\* the call ends by returning a record with a boolean success flag and a
\* non-empty message.
C9_AlwaysAWellFormedResult ==
  /\ ask_pc \in {"idle", "first_attempt", "retry", "returned"}
  /\ Returned =>
       /\ {"response", "session_id", "success"} \subseteq DOMAIN result
       /\ result.success \in BOOLEAN
       /\ result.response # EmptyStr

C9_Witness ==
  /\ Returned /\ Retried
  /\ first_error = ClientError("AccessDeniedException", CtxMsgB)
  /\ retry_error.type = "UnicodeDecodeError"
  /\ result.success = FALSE

\* the last invocation delivered fragments whose text is usable
C10_Case ==
  /\ Returned /\ invocations # <<>>
  /\ LastCompleted
  /\ Strip(TextOf(delivered)) # EmptyStr

\* C10 as stated: the response is exactly the concatenation of the delivered
\* fragments in arrival order.
C10_ResponseIsExactConcatenation ==
  C10_Case => result.response = TextOf(delivered)

\* C10 amended: the response is the concatenation of all delivered fragments in
\* arrival order with leading and trailing whitespace removed; no fragment is
\* reordered, dropped or deduplicated.
C10_ResponseIsTrimmedConcatenation ==
  C10_Case => result.response = Strip(TextOf(delivered))

C10_Witness ==
  /\ C10_Case
  /\ delivered = << <<98>>, <<97>> >>
  /\ result.response = <<"b", "a">>

\* vocabulary of the claims about POST /query
Responded == handler_pc = "responded"
ReportsFailure == http_response.json.success = FALSE

\* C11: every response of POST /query that reports failure carries a 'message'
\* field, on every failure path: gate disconnected, empty query, a failed
\* result returned by the core, an exception in the handler.
C11_FailureCarriesMessage ==
  (Responded /\ ReportsFailure) => "message" \in DOMAIN http_response.json

\* the last two calls of initialize_aws_clients were given the same answers
SameAnswersTwice ==
  /\ Len(init_log.calls) = 2
  /\ init_log.calls[1].answers = init_log.calls[2].answers

\* C12: two calls of initialize_aws_clients in sequence, with the same
\* credentials and the same answers from the services, return the same ok
\* value and leave the same diagnostic, and the connectivity state (flag,
\* diagnostic, clients) after the second equals the state after the first.
C12_InitializeIsIdempotent ==
  SameAnswersTwice =>
    /\ init_log.calls[1].ok = init_log.calls[2].ok
    /\ init_log.calls[1].after.message = init_log.calls[2].after.message
    /\ init_log.calls[1].after = init_log.calls[2].after

\* two failing calls in a row, after an earlier call had connected
C12_Witness ==
  /\ SameAnswersTwice
  /\ ~init_log.calls[2].ok
  /\ init_log.calls[2].after.status
  /\ init_log.calls[2].after.message # EmptyStr

\* C13: every session id the core generates (as a default, for a retry, for a
\* rotation) is non-empty, and the ids generated are pairwise distinct: none
\* repeats an id generated earlier.
C13_GeneratedIdsDistinct ==
  \A i \in 1..Len(generated) :
    /\ generated[i] # None
    /\ generated[i] # EmptyStr
    /\ \A j \in 1..Len(generated) : i # j => generated[i] # generated[j]

\* a call without an id, after an earlier one, that went through a retry and a
\* rotation
C13_Witness ==
  /\ Returned /\ Retried
  /\ arg_session_id = None
  /\ Len(generated) = 4
  /\ Rotated(result)

\* C14: when the first invocation of a POST /query, made under the stored id
\* S, fails with a context-window error, the id stored after the handler has
\* returned differs from S, whatever the retry did.
C14_ExhaustedSessionReplaced ==
  (Responded /\ Len(invocations) >= 1 /\ ContextWindowExceeded(first_error))
    => cooking_session_id # FirstSid

\* a step of initialize_aws_clients: it starts (and ends at once when a
\* credential is missing), or it resumes after one of its remote calls
InitializeStep ==
  \/ init_pc # "idle"
  \/ init_pc' # "idle"
  \/ AWS_ACCESS_KEY_ID = None
  \/ AWS_SECRET_ACCESS_KEY = None

\* C15: no step of ask, on any path, changes the connectivity flag, the
\* diagnostic, the credentials, the three clients or the instance's fields;
\* the connectivity state changes only in steps of initialize_aws_clients.
C15_AskWritesNoSharedState ==
  [][ /\ (ask_pc' # ask_pc) => UNCHANGED <<gate_vars, self_session_id>>
      /\ (gate_vars' # gate_vars) => (ask_vars' = ask_vars /\ InitializeStep)
    ]_vars

\* a call that retried and failed while the gate had a diagnostic on record
C15_Witness ==
  /\ Returned /\ Retried
  /\ retry_error # NoError
  /\ aws_connection_status
  /\ connection_error_message # EmptyStr

\* C16: the connected flag, once true, stays true through every later call of
\* initialize_aws_clients, failed ones included; with the flag true the gate
\* reports connected and a call of ask invokes the remote service.
C16_ConnectedIsMonotonic ==
  [][ /\ aws_connection_status => aws_connection_status'
      /\ aws_connection_status => check_aws_connection.is_connected
      /\ (aws_connection_status /\ ask_pc = "idle" /\ ask_pc' # "idle")
           => (ask_pc' = "first_attempt" /\ Len(invocations') = 1)
    ]_vars

\* connected, with the diagnostic of a failed re-initialisation, and an ask
\* that has invoked the service
C16_Witness ==
  /\ aws_connection_status
  /\ connection_error_message # EmptyStr
  /\ init_pc = "idle"
  /\ ask_pc = "first_attempt"
  /\ Len(invocations) = 1

\* C17: in every reachable state, connected flag = true implies that the
\* three service clients are set.
C17_ConnectedImpliesClients ==
  aws_connection_status =>
    /\ s3_client # None
    /\ bedrock_agent_runtime # None
    /\ bedrock_agent # None

\* an ask in flight while a re-initialisation is between its remote calls
C17_Witness ==
  /\ aws_connection_status
  /\ init_pc = "head_bucket"
  /\ ask_pc = "first_attempt"

\* the handler returns a result of the core in this step
ReturnsCoreResult ==
  /\ handler_pc = "in_core"
  /\ handler_pc' = "responded"
  /\ ask_pc = "returned"

\* C18: when the handler returns a result produced by the core, the stored id
\* then equals the result's session id; it changed in that step exactly when
\* the result carries the rotated flag; a stored id is never cleared.
C18_StoredIdFollowsResult ==
  [][ /\ ReturnsCoreResult =>
           /\ cooking_session_id' = result.session_id
           /\ (cooking_session_id' # cooking_session_id) <=> Rotated(result)
      /\ (cooking_session_id # None) =>
           (cooking_session_id' # None /\ cooking_session_id' # EmptyStr)
    ]_vars

\* a second request of the client whose result rotated the stored id
C18_Witness ==
  /\ Responded /\ Returned
  /\ Rotated(result)
  /\ cooking_session_id = result.session_id
  /\ FirstSid # Uuid(1)

====
